---- MODULE Spec2Model ----
(***************************************************************************)
(* Verification model of tessitura: the staged workflow (scan, identify,   *)
(* enrich, harmonize) advanced per work item over a persistent pipeline    *)
(* state store, the per-client rate limiter of the source clients, the     *)
(* catalog store (migrations, upserts, scan and identify), the enrichers'  *)
(* assertions, the deduplication of the rules engine, the wikidata         *)
(* subtask, the error mapping of the source clients, the vocabulary        *)
(* loader, the scan, identify and process commands and the hints of        *)
(* harmonize.                                                              *)
(***************************************************************************)
EXTENDS Integers, Sequences, FiniteSets, TLC

VARIABLES
    store,        \* pipeline.db: set of execution records [key, status, error]
    config,       \* Config: [lastfm_api_key : BOOLEAN]
    job,          \* work item the command line advances on every run
    pc,           \* position of the running process: idle, pick, exec, fanout, done
    curItem,      \* work item of the advance in progress
    curStage,     \* stage marked running by the advance in progress
    emitted,      \* subtask names returned by the fan-out of the current stage
    tasks,        \* subtask tasks spawned and not yet finished
    executed,     \* history: <<stage, subtask>> executed in the current advance
    doneAtStart,  \* history: keys persisted complete/needs-review when the advance began
    staleAtStart, \* history: keys persisted running when the advance began
    lastExec,     \* history: key whose execute ran in the last step (None otherwise)
    lastEnv,      \* history: environment seen by that execute
    now,          \* rate limiter: clock in milliseconds
    rps,          \* rate limiter: requests_per_second of the client
    permits,      \* rate limiter: permits left in the semaphore
    task,         \* rate limiter: per task [pc, wake]
    reqLog,       \* rate limiter: start times of the client's requests, in order
    delays,       \* rate limiter: scheduling delays taken so far
    mgTable,      \* migrations: the schema_migrations table exists
    mgVersions,   \* migrations: versions recorded in schema_migrations
    mgSchema,     \* migrations: statements of the migration batch in effect
    mgProc,       \* migrations: per connection [pc, stmt] of Database::open
    upRow,        \* upsert: per entity, the association list its row was written with
    upAssoc,      \* upsert: per entity, the association rows in the catalog
    upProc,       \* upsert: the call in progress [pc, entity, new, idx, old]
    files,        \* catalog: per path of the music directory, the file's version
    items,        \* catalog: Item rows [path, meta, expr, man]
    artists,      \* catalog: ids of the Artist rows
    works,        \* catalog: ids of the Work rows
    expressions,  \* catalog: Expression rows [id, work, performers]
    manifestations, \* catalog: ids of the Manifestation rows
    untitled,     \* catalog: Works created so far from a recording title alone
    scanLog,      \* history: the last scan [ran, outcome, existing]
    idp,          \* identify: the stage in progress, its item and its locals
    utc,          \* enrich: the clock read by Utc::now()
    enTask,       \* enrich: per subtask [pc, buf] with the collected timestamps
    assertions,   \* enrich: the assertions table, rows in insertion order
    enOut,        \* enrich: per subtask what the enricher returned and how many
                  \* assertions its succeeded provider calls had built
    ddRules,      \* rules: source_priority of the rules document
    ddIn,         \* rules: the raw proposals handed to deduplicate_proposals
    ddOut,        \* rules: the proposals it leaves
    ddDone,       \* rules: deduplicate_proposals has run
    ddVec,        \* rules: the proposals of the last call, in the order returned
    ddPrev,       \* history: the proposals the call before it returned
    ddCalls,      \* rules: calls made with this document and these proposals
    wd,           \* enrich: the wikidata subtask [pc, item, asked]
    callLog,      \* clients: the calls made [client, response, result], in order
    vocIn,        \* vocabulary: the terms of the snapshot file, in file order
    vocFk,        \* vocabulary: the terms table enforces its broader reference
    voc,          \* vocabulary: load_lcgft in progress [pc, idx]
    vocLog,       \* vocabulary: uris of the terms inserted, in insertion order
    cmd,          \* command line: the command running [name, step, resume, unid]
    cmdLog,       \* history: what the running command has done, in order
    cmdCount,     \* command line: commands started so far
    cat,          \* command line: what the catalog holds [items, unidentified, nofp]
    hzIn,         \* harmonize: the Item's assertions as the catalog lists them
    hzHints,      \* harmonize: the hints passed to the period rules
    hzDone        \* harmonize: the hints have been computed

wfVars == <<store, config, job, pc, curItem, curStage, emitted, tasks,
            executed, doneAtStart, staleAtStart, lastExec, lastEnv>>
rlVars == <<now, rps, permits, task, reqLog, delays>>
mgVars == <<mgTable, mgVersions, mgSchema, mgProc>>
upVars == <<upRow, upAssoc, upProc>>
catVars == <<files, items, artists, works, expressions, manifestations,
             untitled, scanLog, idp>>
enVars == <<utc, enTask, assertions, enOut>>
ddVars == <<ddRules, ddIn, ddOut, ddDone, ddVec, ddPrev, ddCalls>>
wdVars == <<wd>>
clVars == <<callLog>>
voVars == <<vocIn, vocFk, voc, vocLog>>
cmVars == <<cmd, cmdLog, cmdCount, cat>>
hzVars == <<hzIn, hzHints, hzDone>>
extVars == <<mgVars, upVars, catVars, enVars, ddVars, wdVars, clVars, voVars,
             cmVars, hzVars>>
vars == <<wfVars, rlVars, extVars>>

\* What the actions of one part leave alone.
restMg == <<wfVars, rlVars, upVars, catVars, enVars, ddVars, wdVars, clVars, voVars,
            cmVars, hzVars>>
restUp == <<wfVars, rlVars, mgVars, catVars, enVars, ddVars, wdVars, clVars, voVars,
            cmVars, hzVars>>
restCat == <<wfVars, rlVars, mgVars, upVars, enVars, ddVars, wdVars, clVars, voVars,
            cmVars, hzVars>>
restEn == <<wfVars, rlVars, mgVars, upVars, catVars, ddVars, wdVars, clVars, voVars,
            cmVars, hzVars>>
restWd == <<wfVars, rlVars, mgVars, upVars, enVars, ddVars, clVars, voVars,
            cmVars, hzVars>>
restCl == <<wfVars, rlVars, mgVars, upVars, catVars, enVars, ddVars, wdVars, voVars,
            cmVars, hzVars>>
restVo == <<wfVars, rlVars, mgVars, upVars, catVars, enVars, ddVars, wdVars,
            clVars, cmVars, hzVars>>
restCm == <<rlVars, mgVars, upVars, catVars, enVars, ddVars, wdVars, clVars,
            voVars, hzVars>>
restHz == <<wfVars, rlVars, mgVars, upVars, catVars, enVars, ddVars, wdVars,
            clVars, voVars, cmVars>>
restDd == <<wfVars, rlVars, mgVars, upVars, catVars, enVars, wdVars, clVars, voVars,
            cmVars, hzVars>>

None == "none"

\* The key of no execution.
NoKey == <<None, None, None>>

----------------------------------------------------------------------------
(* Work items and catalog                                                  *)

\* The id the process command gives its work item (not a UUID).
ProcessJobId == "process-job"

\* Items of the catalog; their ids are UUIDs.
CatalogItems == {"item-1"}

\* Ids that Uuid::parse_str accepts; "item-2" is a UUID of no catalog Item.
UuidIds == {"item-1", "item-2"}

WorkItems == {ProcessJobId, "item-1", "item-2"}

\* parse_item_id: Ok exactly for a UUID string.
parse_item_id(item_id) == item_id \in UuidIds

----------------------------------------------------------------------------
(* The pipeline DAG                                                        *)

StageNames == {"scan", "identify", "enrich", "harmonize"}

\* <<b, a>>: b depends on a.
DependenciesNoIdentifyEdge ==
    {<<"identify", "scan">>, <<"harmonize", "enrich">>}

DependenciesHarmonizeOnIdentify ==
    {<<"identify", "scan">>, <<"enrich", "identify">>, <<"harmonize", "identify">>}

Dependencies ==
    {<<"identify", "scan">>, <<"enrich", "identify">>, <<"harmonize", "enrich">>}

DepsOf(s) == {d \in StageNames : <<s, d>> \in Dependencies}

\* The ids the scan and identify commands give their work items.
ScanJobId == "scan-job"
IdentifyJobId == "identify-job"

\* The stages of the workflow a work item is advanced through: the scan and
\* identify commands build the workflow with build_pipeline, every other
\* caller with build_full_pipeline.
PipelineOf(i) ==
    IF i \in {ScanJobId, IdentifyJobId} THEN {"scan", "identify"}
    ELSE StageNames

----------------------------------------------------------------------------
(* Stage outcomes                                                          *)

Complete == [kind |-> "complete", subtasks |-> {}, error |-> None]
NeedsReview == [kind |-> "needs_review", subtasks |-> {}, error |-> None]
FanOut(S) == [kind |-> "fanout", subtasks |-> S, error |-> None]
Failed(e) == [kind |-> "failed", subtasks |-> {}, error |-> e]

\* What an execute call meets: whether the catalog opens and answers, whether
\* the filesystem walk / batch / provider call succeeds, and what the Item's
\* assertions yield under the rules.
Envs == [db : BOOLEAN, io : BOOLEAN,
         proposals : {"no_assertions", "none", "some", "conflict"}]

ScanExecuteSwallow(env) == Complete

\* ScanStage::execute: the catalog must open and the directory walk succeed.
ScanExecute(env) ==
    IF ~env.db THEN Failed("Failed to open database")
    ELSE IF env.io THEN Complete
    ELSE Failed("Scan failed")

\* IdentifyStage::execute: only the catalog failing to open or to list the
\* unidentified Items fails the stage; a per-item failure (env.io) is logged.
IdentifyExecute(env) ==
    IF env.db THEN Complete ELSE Failed("Identification failed")

SourceNames == {"musicbrainz", "wikidata", "lastfm", "discogs"}

\* EnrichStage::new: which enrichers are Some.
EnabledSources(cfg) ==
    {"musicbrainz", "wikidata", "discogs"}
        \cup (IF cfg.lastfm_api_key THEN {"lastfm"} ELSE {})

EnrichSubtasksNoDiscogs(cfg) ==
    {"musicbrainz", "wikidata"}
        \cup (IF cfg.lastfm_api_key THEN {"lastfm"} ELSE {})

\* The subtask list pushed by execute on its first call.
EnrichSubtasks(cfg) ==
    {"musicbrainz", "wikidata", "discogs"}
        \cup (IF cfg.lastfm_api_key THEN {"lastfm"} ELSE {})

\* enrich_from_<source>: Err before the provider is called when the enricher
\* is missing, the catalog does not open, the id is no UUID or names no Item;
\* the provider's own outcome (env.io) is logged and dropped.
EnrichFromSource(src, cfg, item_id, env) ==
    IF src \notin EnabledSources(cfg) THEN "enricher not available"
    ELSE IF ~env.db THEN "Failed to open database"
    ELSE IF ~parse_item_id(item_id) THEN "Invalid item ID (not a UUID)"
    ELSE IF item_id \notin CatalogItems THEN "Item not found"
    ELSE None

EnrichExecuteInverted(subtask, cfg, item_id, env) ==
    IF subtask = None
    THEN IF EnrichSubtasks(cfg) # {} THEN Complete
         ELSE FanOut(EnrichSubtasks(cfg))
    ELSE IF subtask \in SourceNames
    THEN LET r == EnrichFromSource(subtask, cfg, item_id, env)
         IN  IF r = None THEN Complete ELSE Failed(r)
    ELSE Failed("Unknown enrichment subtask")

\* EnrichStage::execute: fan out on the first call, dispatch on a subtask name.
EnrichExecute(subtask, cfg, item_id, env) ==
    IF subtask = None
    THEN IF EnrichSubtasks(cfg) = {} THEN Complete
         ELSE FanOut(EnrichSubtasks(cfg))
    ELSE IF subtask \in SourceNames
    THEN LET r == EnrichFromSource(subtask, cfg, item_id, env)
         IN  IF r = None THEN Complete ELSE Failed(r)
    ELSE Failed("Unknown enrichment subtask")

\* HarmonizeStage::execute.
HarmonizeExecute(env) ==
    IF ~env.db THEN Failed("Failed to open database")
    ELSE IF env.proposals = "no_assertions" THEN Complete
    ELSE IF env.proposals = "conflict" THEN NeedsReview
    ELSE IF env.proposals = "none" THEN Complete
    ELSE NeedsReview

\* Keys of ctx.metadata written by HarmonizeStage::execute: the serialized
\* proposals are inserted after the rules have been applied.
HarmonizeMetadata(env) ==
    IF ~env.db THEN {}
    ELSE IF env.proposals = "no_assertions" THEN {}
    ELSE {"proposed_tags"}

\* Dispatch over the registered stages.
StageExecute(stage, subtask, cfg, item_id, env) ==
    CASE stage = "scan" -> ScanExecute(env)
      [] stage = "identify" -> IdentifyExecute(env)
      [] stage = "enrich" -> EnrichExecute(subtask, cfg, item_id, env)
      [] stage = "harmonize" -> HarmonizeExecute(env)

\* What the execute of a stage can meet. Only harmonize reads assertions, and
\* only a catalog Item's id is ever the entity id of an assertion.
EnvsFor(stage, subtask, item_id) ==
    {e \in Envs :
        /\ stage # "harmonize" => e.proposals = "no_assertions"
        /\ stage = "harmonize" => e.io
        /\ (stage = "enrich" /\ subtask = None) => (e.db /\ e.io)
        /\ item_id \notin CatalogItems => e.proposals = "no_assertions"}

----------------------------------------------------------------------------
(* The pipeline state store                                                *)

Statuses == {"pending", "running", "complete", "needs_review", "failed"}
DoneStatuses == {"complete", "needs_review"}

Key(i, s, t) == <<i, s, t>>

Rows(st, k) == {r \in st : r.key = k}

\* Status of a key; a key with no record yet is pending.
StatusOf(st, k) ==
    IF Rows(st, k) = {} THEN "pending" ELSE (CHOOSE r \in Rows(st, k) : TRUE).status

ErrorOf(st, k) ==
    IF Rows(st, k) = {} THEN None ELSE (CHOOSE r \in Rows(st, k) : TRUE).error

InsertOnly(st, k, status, err) ==
    st \cup {[key |-> k, status |-> status, error |-> err]}

\* Write the record of a key, replacing the one it has.
Upsert(st, k, status, err) ==
    {r \in st : r.key # k} \cup {[key |-> k, status |-> status, error |-> err]}

OpenStateStoreInMemory(st) == {}

\* SqliteStateStore::open(parent/pipeline.db): the records written by earlier
\* processes are the records this process starts from.
OpenStateStore(st) == st

ReconcileKeep(st, i) == st

\* A running marker left by a dead process is demoted to pending.
Reconcile(st, i) ==
    {r \in st : ~(r.key[1] = i /\ r.status = "running")}
        \cup {[key |-> r.key, status |-> "pending", error |-> r.error] :
                r \in {q \in st : q.key[1] = i /\ q.status = "running"}}

DoneKeys(st, i) ==
    {r.key : r \in {q \in st : q.key[1] = i /\ q.status \in DoneStatuses}}

\* Ready: every dependency complete, own state neither complete nor needs-review.
Ready(st, i, s) ==
    /\ StatusOf(st, Key(i, s, None)) \notin DoneStatuses
    /\ \A d \in DepsOf(s) : StatusOf(st, Key(i, d, None)) = "complete"

----------------------------------------------------------------------------
(* The rate limiter of one source client                                   *)

\* Concurrent tasks sharing the client.
NumTasks == 2

\* Requests issued through the client in one run.
MaxRequests == 4

\* Scheduling delays of one millisecond in one run.
MaxDelays == 2

Tasks == 1 .. NumTasks

\* requests_per_second of the clients: MusicBrainz and unauthenticated Discogs
\* 1, AcoustID 3, authenticated Discogs 4, Wikidata and Last.fm 5.
ClientRps == {1, 3, 4, 5}

RateLimiterNewTwoPermits(requests_per_second) ==
    [permits |-> 2, interval |-> 1000 \div requests_per_second]

\* RateLimiter::new: Semaphore::new(1) and an interval of 1000 / rps ms.
RateLimiterNew(requests_per_second) ==
    [permits |-> 1, interval |-> 1000 \div requests_per_second]

IdleTask == [pc |-> "idle", wake |-> 0]

TasksAt(p) == {t \in Tasks : task[t].pc = p}

\* Calls begun and not yet answered, plus the requests already sent.
CallsBegun ==
    Len(reqLog) + Cardinality(TasksAt("waiting")) + Cardinality(TasksAt("sleeping"))

\* A task calls a client method, which first awaits acquire(): it queues on
\* the semaphore.
ClientCall(t) ==
    /\ task[t].pc = "idle"
    /\ CallsBegun < MaxRequests
    /\ task' = [task EXCEPT ![t] = [pc |-> "waiting", wake |-> 0]]
    /\ UNCHANGED <<now, rps, permits, reqLog, delays, wfVars, extVars>>

\* semaphore.acquire() returns a permit; the task then sleeps the interval.
TakePermit(t) ==
    /\ task[t].pc = "waiting"
    /\ permits > 0
    /\ permits' = permits - 1
    /\ task' = [task EXCEPT ![t] = [pc |-> "sleeping",
                                    wake |-> now + RateLimiterNew(rps).interval]]
    /\ UNCHANGED <<now, rps, reqLog, delays, wfVars, extVars>>

\* The sleep is over: acquire() returns, dropping its permit, and the caller
\* sends its request.
AcquireReturns(t) ==
    /\ task[t].pc = "sleeping"
    /\ now >= task[t].wake
    /\ permits' = permits + 1
    /\ reqLog' = Append(reqLog, now)
    /\ task' = [task EXCEPT ![t] = [pc |-> "inflight", wake |-> 0]]
    /\ UNCHANGED <<now, rps, delays, wfVars, extVars>>

\* The response (or the 30 s timeout) ends the request.
ResponseArrives(t) ==
    /\ task[t].pc = "inflight"
    /\ task' = [task EXCEPT ![t] = IdleTask]
    /\ UNCHANGED <<now, rps, permits, reqLog, delays, wfVars, extVars>>

\* Time passes up to the deadline of the sleeping task.
TimerFires ==
    /\ \E t \in TasksAt("sleeping") :
          /\ task[t].wake > now
          /\ now' = task[t].wake
    /\ UNCHANGED <<rps, permits, task, reqLog, delays, wfVars, extVars>>

\* Time passes by a millisecond with nothing scheduled.
SchedulingDelay ==
    /\ delays < MaxDelays
    /\ now' = now + 1
    /\ delays' = delays + 1
    /\ UNCHANGED <<rps, permits, task, reqLog, wfVars, extVars>>

----------------------------------------------------------------------------
(* Database::open and apply_migrations                                     *)

\* Connections opening the catalog at the same time.
NumOpeners == 2

\* Statements of the batch of one migration.
NumStatements == 3

Openers == 1 .. NumOpeners

BatchStatements == 1 .. NumStatements

\* MIGRATIONS: the versions the binary knows.
MIGRATIONS == {1}

ClosedConn == [pc |-> "closed", stmt |-> 0]

\* Pending migrations: those not among the applied versions read at open.
PendingMigrations(applied) == MIGRATIONS \ applied

\* Connection::open, then CREATE TABLE IF NOT EXISTS schema_migrations.
OpenBegin(o) ==
    /\ mgProc[o].pc = "closed"
    /\ \E ok \in BOOLEAN :
          IF ok
          THEN /\ mgTable' = TRUE
               /\ mgProc' = [mgProc EXCEPT ![o] = [pc |-> "read", stmt |-> 0]]
          ELSE /\ mgProc' = [mgProc EXCEPT ![o] = [pc |-> "failed", stmt |-> 0]]
               /\ UNCHANGED mgTable
    /\ UNCHANGED <<mgVersions, mgSchema, restMg>>

\* SELECT version FROM schema_migrations: with nothing pending the open is
\* done, otherwise the batch of the pending migration is run.
ReadApplied(o) ==
    /\ mgProc[o].pc = "read"
    /\ mgProc' = [mgProc EXCEPT ![o] =
                    IF PendingMigrations(mgVersions) = {}
                    THEN [pc |-> "open", stmt |-> 0]
                    ELSE [pc |-> "batch", stmt |-> 1]]
    /\ UNCHANGED <<mgTable, mgVersions, mgSchema, restMg>>

\* execute_batch runs the statements one after the other, each committed on
\* its own; a statement that fails ends the batch and the open with an error.
BatchStatement(o) ==
    /\ mgProc[o].pc = "batch"
    /\ \E ok \in BOOLEAN :
          IF ok
          THEN /\ mgSchema' = mgSchema \cup {mgProc[o].stmt}
               /\ mgProc' = [mgProc EXCEPT ![o] =
                               IF mgProc[o].stmt = NumStatements
                               THEN [pc |-> "record", stmt |-> 0]
                               ELSE [pc |-> "batch", stmt |-> mgProc[o].stmt + 1]]
          ELSE /\ mgProc' = [mgProc EXCEPT ![o] = [pc |-> "failed", stmt |-> 0]]
               /\ UNCHANGED mgSchema
    /\ UNCHANGED <<mgTable, mgVersions, restMg>>

\* INSERT INTO schema_migrations (version, name): fails on a version already
\* recorded (primary key) or on an I/O error.
RecordVersion(o) ==
    /\ mgProc[o].pc = "record"
    /\ \E ok \in BOOLEAN :
          IF ok /\ PendingMigrations(mgVersions) # {}
          THEN /\ mgVersions' = mgVersions \cup MIGRATIONS
               /\ mgProc' = [mgProc EXCEPT ![o] = [pc |-> "open", stmt |-> 0]]
          ELSE /\ mgProc' = [mgProc EXCEPT ![o] = [pc |-> "failed", stmt |-> 0]]
               /\ UNCHANGED mgVersions
    /\ UNCHANGED <<mgTable, mgSchema, restMg>>

\* The handle is dropped, or the error of the open has been returned.
CloseConn(o) ==
    /\ mgProc[o].pc \in {"open", "failed"}
    /\ mgProc' = [mgProc EXCEPT ![o] = ClosedConn]
    /\ UNCHANGED <<mgTable, mgVersions, mgSchema, restMg>>

\* A fresh catalog file and no connection.
InitMg ==
    /\ mgTable = FALSE
    /\ mgVersions = {}
    /\ mgSchema = {}
    /\ mgProc = [o \in Openers |-> ClosedConn]

----------------------------------------------------------------------------
(* Database::upsert_expression and Database::upsert_artist                 *)

\* Length of the association list handed to an upsert.
MaxAssoc == 2

\* The Expression with its performers, the Artist with its roles.
UpsertEntities == {"expression", "artist"}

\* Performer ids of the Expression, roles of the Artist.
AssocValues == {"x", "y"}

\* performer_ids / roles: a Vec, so an order and possibly a repetition.
AssocLists == UNION {[1 .. n -> AssocValues] : n \in 0 .. MaxAssoc}

SeqRange(q) == {q[i] : i \in 1 .. Len(q)}

NoUpsert == [pc |-> "idle", entity |-> None, new |-> <<>>, idx |-> 0, old |-> {}]

\* INSERT OR REPLACE of the entity row, committed on its own.
UpsertReplaceRow(e, new) ==
    /\ upProc.pc = "idle"
    /\ \E ok \in BOOLEAN :
          IF ok
          THEN /\ upRow' = [upRow EXCEPT ![e] = new]
               /\ upProc' = [pc |-> "delete", entity |-> e, new |-> new, idx |-> 0,
                             old |-> upAssoc[e]]
          ELSE /\ upProc' = [pc |-> "failed", entity |-> e, new |-> new, idx |-> 0,
                             old |-> upAssoc[e]]
               /\ UNCHANGED upRow
    /\ UNCHANGED <<upAssoc, restUp>>

\* DELETE of all association rows of the entity, committed on its own.
UpsertDeleteAssociations ==
    /\ upProc.pc = "delete"
    /\ \E ok \in BOOLEAN :
          IF ok
          THEN /\ upAssoc' = [upAssoc EXCEPT ![upProc.entity] = {}]
               /\ upProc' = [upProc EXCEPT !.pc = "insert", !.idx = 1]
          ELSE /\ upProc' = [upProc EXCEPT !.pc = "failed"]
               /\ UNCHANGED upAssoc
    /\ UNCHANGED <<upRow, restUp>>

\* One INSERT per element of the list; a repeated element violates the
\* primary key, and any failure returns the error with the loop unfinished.
UpsertInsertAssociation ==
    /\ upProc.pc = "insert"
    /\ IF upProc.idx > Len(upProc.new)
       THEN /\ upProc' = [upProc EXCEPT !.pc = "done"]
            /\ UNCHANGED upAssoc
       ELSE \E ok \in BOOLEAN :
              IF ok /\ upProc.new[upProc.idx] \notin upAssoc[upProc.entity]
              THEN /\ upAssoc' = [upAssoc EXCEPT ![upProc.entity] =
                                     @ \cup {upProc.new[upProc.idx]}]
                   /\ upProc' = [upProc EXCEPT !.idx = @ + 1]
              ELSE /\ upProc' = [upProc EXCEPT !.pc = "failed"]
                   /\ UNCHANGED upAssoc
    /\ UNCHANGED <<upRow, restUp>>

\* The upsert returns Ok or its error.
UpsertReturn ==
    /\ upProc.pc \in {"done", "failed"}
    /\ upProc' = NoUpsert
    /\ UNCHANGED <<upRow, upAssoc, restUp>>

InitUp ==
    /\ upRow = [e \in UpsertEntities |-> <<>>]
    /\ upAssoc = [e \in UpsertEntities |-> {}]
    /\ upProc = NoUpsert

----------------------------------------------------------------------------
(* The catalog: scan                                                       *)

\* Versions (size and modification time) a file goes through.
MaxFileVersion == 2

\* Works created from a recording title alone (no work relation).
MaxUntitled == 1

\* Audio files of the music directory.
Paths == {"p1", "p2"}

\* The orders in which the directory walk can yield the files.
WalkOrders == {<<"p1", "p2">>, <<"p2", "p1">>}

\* Item::new for a file: not identified.
NewItem(path, meta) == [path |-> path, meta |-> meta, expr |-> None, man |-> None]

\* get_item_by_path.
ItemsAt(rows, path) == {r \in rows : r.path = path}

\* insert_item: a plain INSERT; file_path is UNIQUE, so it fails when the path
\* has a row.
insert_item(rows, item) ==
    IF ItemsAt(rows, item.path) # {}
    THEN [ok |-> FALSE, rows |-> rows]
    ELSE [ok |-> TRUE, rows |-> rows \cup {item}]

RECURSIVE scan_directory(_, _, _, _)
\* scan_directory: every file of the walk is made an Item and inserted; the
\* first error returns. fault is the position of the file whose metadata
\* cannot be read (0: none).
scan_directory(order, fs, rows, fault) ==
    IF order = <<>> THEN [ok |-> TRUE, rows |-> rows]
    ELSE IF fault = 1 THEN [ok |-> FALSE, rows |-> rows]
    ELSE LET r == insert_item(rows, NewItem(Head(order), fs[Head(order)]))
         IN  IF r.ok
             THEN scan_directory(Tail(order), fs, r.rows,
                                 IF fault = 0 THEN 0 ELSE fault - 1)
             ELSE [ok |-> FALSE, rows |-> rows]

NoScan == [ran |-> FALSE, outcome |-> None, existing |-> FALSE, faulty |-> FALSE]

\* A file is rewritten: its size and modification time change.
FileChange(path) ==
    /\ idp.pc = "idle"
    /\ wd.pc = "idle"
    /\ files[path] < MaxFileVersion
    /\ files' = [files EXCEPT ![path] = @ + 1]
    /\ scanLog' = NoScan
    /\ UNCHANGED <<items, artists, works, expressions, manifestations, untitled,
                   idp, restCat>>

\* ScanStage::execute: open the catalog, walk the directory.
ScanRun ==
    /\ idp.pc = "idle"
    /\ wd.pc = "idle"
    /\ \E order \in WalkOrders, fault \in 0 .. 2, db \in BOOLEAN :
         LET r == IF db THEN scan_directory(order, files, items, fault)
                  ELSE [ok |-> FALSE, rows |-> items]
             out == ScanExecute([db |-> db, io |-> r.ok,
                                 proposals |-> "no_assertions"])
         IN  /\ items' = r.rows
             /\ scanLog' = [ran |-> TRUE, outcome |-> out.kind,
                            existing |-> \E q \in Paths : ItemsAt(items, q) # {},
                            faulty |-> ~db \/ fault # 0]
    /\ UNCHANGED <<files, artists, works, expressions, manifestations, untitled,
                   idp, restCat>>

----------------------------------------------------------------------------
(* The catalog: identify                                                   *)

\* file_path order of the listing.
PathOrder == <<"p1", "p2">>

\* MusicBrainz ids of the recordings, artists, works and releases met.
RecordingIds == {"rec1"}
ArtistMbids == {"A1", "A2"}
WorkMbids == {"W1"}
ReleaseMbids == {"R1"}

\* artist_credit of a recording.
CreditLists == {<<>>, <<"A1">>, <<"A1", "A2">>}

\* What get_recording answers: artist credits, the work of a "performance"
\* relation if any, the first release if any.
RecordingData ==
    [id : RecordingIds, credits : CreditLists,
     work : {None} \cup WorkMbids, release : {None} \cup ReleaseMbids]

NoRecording == [id |-> None, credits |-> <<>>, work |-> None, release |-> None]

\* Id of a Work: the one row with that MusicBrainz id (the column is UNIQUE),
\* or the n-th Work created without one.
WorkId(mbid, n) == [mbid |-> mbid, n |-> n]

NoWorkId == WorkId(None, 0)

NoItem == NewItem(None, 0)

NoIdentify ==
    [pc |-> "idle", queue |-> <<>>, cur |-> NoItem, rec |-> NoRecording,
     work_id |-> NoWorkId, expr_id |-> None, man_id |-> None, handle |-> FALSE,
     listed |-> FALSE, batch |-> {}, visited |-> {}, errs |-> {},
     outcome |-> None]

list_all_items(rows) ==
    LET ps == SelectSeq(PathOrder, LAMBDA q : \E r \in rows : r.path = q)
    IN  [i \in 1 .. Len(ps) |-> CHOOSE r \in rows : r.path = ps[i]]

\* list_unidentified_items: WHERE expression_id IS NULL ORDER BY file_path.
list_unidentified_items(rows) ==
    LET ps == SelectSeq(PathOrder,
                        LAMBDA q : \E r \in rows : r.path = q /\ r.expr = None)
    IN  [i \in 1 .. Len(ps) |-> CHOOSE r \in rows : r.path = ps[i]]

\* update_item: UPDATE items SET ... WHERE id = the item's id.
update_item(rows, item) ==
    IF ItemsAt(rows, item.path) = {} THEN rows
    ELSE (rows \ ItemsAt(rows, item.path)) \cup {item}

insert_expression_no_row(exprs, id, work_id, performer_ids, k) == exprs

\* insert_expression: the row, then one association per performer; k is the
\* number of statements that succeed before the first error.
insert_expression(exprs, id, work_id, performer_ids, k) ==
    IF k = 0 THEN exprs
    ELSE exprs \cup {[id |-> id, work |-> work_id,
                      performers |-> {performer_ids[i] : i \in 1 .. (k - 1)}]}

AfterItemAbort(rest, failed) == IF failed THEN <<>> ELSE rest

\* The loop of identify_items after an item: its error, if any, has been
\* logged, and the remaining items follow.
AfterItem(rest, failed) == rest

\* The item is done with: locals and the handle, if open, are dropped.
EndItem(failed) ==
    [idp EXCEPT !.pc = "next",
                !.queue = AfterItem(idp.queue, failed),
                !.visited = @ \cup {idp.cur.path},
                !.errs = IF failed THEN @ \cup {idp.cur.path} ELSE @,
                !.cur = NoItem, !.rec = NoRecording, !.work_id = NoWorkId,
                !.expr_id = None, !.man_id = None, !.handle = FALSE]

\* identify_items: open the catalog, list the unidentified Items, drop the
\* handle. An error here is the only one that fails the stage.
IdentifyBegin ==
    /\ idp.pc = "idle"
    /\ wd.pc = "idle"
    /\ \E db \in BOOLEAN :
         IF db
         THEN LET q == list_unidentified_items(items)
              IN  idp' = [NoIdentify EXCEPT !.pc = "next", !.queue = q,
                                            !.listed = TRUE,
                                            !.batch = {q[i].path : i \in 1 .. Len(q)}]
         ELSE idp' = [NoIdentify EXCEPT
                        !.pc = "done",
                        !.outcome = IdentifyExecute([db |-> FALSE, io |-> TRUE,
                                        proposals |-> "no_assertions"]).kind]
    /\ scanLog' = NoScan
    /\ UNCHANGED <<files, items, artists, works, expressions, manifestations,
                   untitled, restCat>>

\* The next Item of the batch: its fingerprint lookup and metadata searches
\* are sent; with the batch exhausted the stage returns.
NextItem ==
    /\ idp.pc = "next"
    /\ IF idp.queue = <<>>
       THEN idp' = [idp EXCEPT
                      !.pc = "done",
                      !.outcome = IdentifyExecute([db |-> TRUE,
                                      io |-> idp.errs = {},
                                      proposals |-> "no_assertions"]).kind]
       ELSE idp' = [idp EXCEPT !.pc = "lookup", !.cur = Head(idp.queue),
                               !.queue = Tail(idp.queue)]
    /\ UNCHANGED <<files, items, artists, works, expressions, manifestations,
                   untitled, scanLog, restCat>>

\* Steps 1 and 2: the AcoustID lookup and the MusicBrainz searches answer
\* with a recording, with none, or with errors.
LookupResponds ==
    /\ idp.pc = "lookup"
    /\ \E res \in {"match", "nomatch", "error"}, id \in RecordingIds :
         idp' = IF res = "match"
                THEN [idp EXCEPT !.pc = "recording", !.rec.id = id]
                ELSE EndItem(res = "error")
    /\ UNCHANGED <<files, items, artists, works, expressions, manifestations,
                   untitled, scanLog, restCat>>

\* create_frbr_entities: get_recording answers.
RecordingResponds ==
    /\ idp.pc = "recording"
    /\ \E ok \in BOOLEAN, rec \in RecordingData :
         /\ rec.id = idp.rec.id
         /\ rec.work = None => untitled < MaxUntitled
         /\ idp' = IF ok THEN [idp EXCEPT !.pc = "artists", !.rec = rec]
                   ELSE EndItem(TRUE)
    /\ UNCHANGED <<files, items, artists, works, expressions, manifestations,
                   untitled, scanLog, restCat>>

\* Database::open, then step 1: every credited artist is found by its
\* MusicBrainz id or inserted; k credits are handled before the first error.
OpenAndCreateArtists ==
    /\ idp.pc = "artists"
    /\ \E db \in BOOLEAN, k \in 0 .. Len(idp.rec.credits) :
         IF ~db
         THEN /\ idp' = EndItem(TRUE)
              /\ UNCHANGED artists
         ELSE /\ artists' = artists \cup {idp.rec.credits[i] : i \in 1 .. k}
              /\ idp' = IF k = Len(idp.rec.credits)
                        THEN [idp EXCEPT !.pc = "work", !.handle = TRUE]
                        ELSE EndItem(TRUE)
    /\ UNCHANGED <<files, items, works, expressions, manifestations, untitled,
                   scanLog, restCat>>

\* Step 2: the Work of the "performance" relation is found or inserted; a new
\* one has its details fetched with the handle still open. Without a relation
\* a Work is made from the recording title.
CreateWork ==
    /\ idp.pc = "work"
    /\ \E ok \in BOOLEAN :
         IF ~ok
         THEN /\ idp' = EndItem(TRUE)
              /\ UNCHANGED <<works, untitled>>
         ELSE IF idp.rec.work = None
         THEN /\ works' = works \cup {WorkId(None, untitled + 1)}
              /\ untitled' = untitled + 1
              /\ idp' = [idp EXCEPT !.pc = "expression",
                                    !.work_id = WorkId(None, untitled + 1)]
         ELSE IF WorkId(idp.rec.work, 0) \in works
         THEN /\ idp' = [idp EXCEPT !.pc = "expression",
                                    !.work_id = WorkId(idp.rec.work, 0)]
              /\ UNCHANGED <<works, untitled>>
         ELSE /\ works' = works \cup {WorkId(idp.rec.work, 0)}
              /\ idp' = [idp EXCEPT !.pc = "work_detail",
                                    !.work_id = WorkId(idp.rec.work, 0)]
              /\ UNCHANGED untitled
    /\ UNCHANGED <<files, items, artists, expressions, manifestations, scanLog,
                   restCat>>

\* get_work answers: an error keeps the Work as inserted; otherwise the
\* composer's Artist is inserted if new and the Work is upserted. k is the
\* number of these two writes that succeed.
WorkDetailResponds ==
    /\ idp.pc = "work_detail"
    /\ \E resp \in BOOLEAN, composer \in {None} \cup ArtistMbids, k \in 0 .. 2 :
         IF ~resp
         THEN /\ idp' = [idp EXCEPT !.pc = "expression"]
              /\ UNCHANGED artists
         ELSE /\ artists' = IF composer # None /\ k >= 1
                            THEN artists \cup {composer} ELSE artists
              /\ idp' = IF k = 2 THEN [idp EXCEPT !.pc = "expression"]
                        ELSE EndItem(TRUE)
    /\ UNCHANGED <<files, items, works, expressions, manifestations, untitled,
                   scanLog, restCat>>

\* Step 3: the Expression of the recording is found or inserted with its
\* performers.
CreateExpression ==
    /\ idp.pc = "expression"
    /\ IF \E e \in expressions : e.id = idp.rec.id
       THEN /\ \E ok \in BOOLEAN :
                 idp' = IF ok THEN [idp EXCEPT !.pc = "manifestation",
                                               !.expr_id = idp.rec.id]
                        ELSE EndItem(TRUE)
            /\ UNCHANGED expressions
       ELSE \E k \in 0 .. (Len(idp.rec.credits) + 1) :
              /\ expressions' = insert_expression(expressions, idp.rec.id,
                                                  idp.work_id, idp.rec.credits, k)
              /\ idp' = IF k = Len(idp.rec.credits) + 1
                        THEN [idp EXCEPT !.pc = "manifestation",
                                         !.expr_id = idp.rec.id]
                        ELSE EndItem(TRUE)
    /\ UNCHANGED <<files, items, artists, works, manifestations, untitled,
                   scanLog, restCat>>

\* Step 4: the Manifestation of the first release, if any, is found or
\* inserted.
CreateManifestation ==
    /\ idp.pc = "manifestation"
    /\ IF idp.rec.release = None
       THEN /\ idp' = [idp EXCEPT !.pc = "link"]
            /\ UNCHANGED manifestations
       ELSE \E ok \in BOOLEAN :
              IF ok
              THEN /\ manifestations' = manifestations \cup {idp.rec.release}
                   /\ idp' = [idp EXCEPT !.pc = "link", !.man_id = idp.rec.release]
              ELSE /\ idp' = EndItem(TRUE)
                   /\ UNCHANGED manifestations
    /\ UNCHANGED <<files, items, artists, works, expressions, untitled, scanLog,
                   restCat>>

\* Step 5: the Item is linked to its Expression and Manifestation.
LinkItem ==
    /\ idp.pc = "link"
    /\ \E ok \in BOOLEAN :
         IF ok
         THEN /\ items' = update_item(items, [idp.cur EXCEPT !.expr = idp.expr_id,
                                                             !.man = idp.man_id])
              /\ idp' = EndItem(FALSE)
         ELSE /\ idp' = EndItem(TRUE)
              /\ UNCHANGED items
    /\ UNCHANGED <<files, artists, works, expressions, manifestations, untitled,
                   scanLog, restCat>>

\* IdentifyStage::execute returns its outcome.
IdentifyReturn ==
    /\ idp.pc = "done"
    /\ idp' = NoIdentify
    /\ UNCHANGED <<files, items, artists, works, expressions, manifestations,
                   untitled, scanLog, restCat>>

\* An empty catalog beside a music directory holding the files.
InitCat ==
    /\ files = [q \in Paths |-> 1]
    /\ items = {}
    /\ artists = {}
    /\ works = {}
    /\ expressions = {}
    /\ manifestations = {}
    /\ untitled = 0
    /\ scanLog = NoScan
    /\ idp = NoIdentify

----------------------------------------------------------------------------
(* The enrichers: collecting and persisting assertions                     *)

\* Enrich subtasks of one item running at the same time.
NumEnrichers == 2

\* Provider answers one enricher turns into assertions.
MaxFetches == 2

\* Ticks of the clock in one run.
MaxClock == 2

EnricherOrder == <<"musicbrainz", "lastfm", "wikidata", "discogs">>

Enrichers == {EnricherOrder[i] : i \in 1 .. NumEnrichers}

\* Assertion::new: fetched_at is the clock when the assertion is built.
AssertionNew(source, clock) == [source |-> source, fetched_at |-> clock]

IdleEnricher == [pc |-> "idle", buf |-> <<>>]

\* Nothing returned yet.
NoResult == [result |-> "none", built |-> 0]

\* The subtask of a source starts and sends its first provider request.
EnricherStart(src) ==
    /\ enTask[src].pc = "idle"
    /\ enTask' = [enTask EXCEPT ![src] = [pc |-> "fetching", buf |-> <<>>]]
    /\ UNCHANGED <<utc, assertions, enOut, restEn>>

\* A provider answer arrives: its assertions are built and pushed on the
\* enricher's vector; another request follows or the fetching is over. An
\* error returns from the enricher before anything is persisted.
EnricherResponse(src) ==
    /\ enTask[src].pc = "fetching"
    /\ \E ok \in BOOLEAN, more \in BOOLEAN :
         /\ enTask' = [enTask EXCEPT ![src] =
              IF ~ok THEN [pc |-> "done", buf |-> <<>>]
              ELSE [pc |-> IF more /\ Len(enTask[src].buf) + 1 < MaxFetches
                           THEN "fetching" ELSE "persist",
                    buf |-> Append(enTask[src].buf, AssertionNew(src, utc))]]
         /\ enOut' = IF ok THEN enOut
                     ELSE [enOut EXCEPT ![src] =
                             [result |-> "fetch_error",
                              built |-> Len(enTask[src].buf)]]
    /\ UNCHANGED <<utc, assertions, restEn>>

\* The end of the enricher: the catalog is opened and the collected
\* assertions are inserted in the order they were built; k of them before the
\* first error.
EnricherPersist(src) ==
    /\ enTask[src].pc = "persist"
    /\ \E k \in 0 .. Len(enTask[src].buf) :
         /\ assertions' = assertions \o SubSeq(enTask[src].buf, 1, k)
         /\ enOut' = [enOut EXCEPT ![src] =
                        [result |-> IF k = Len(enTask[src].buf)
                                    THEN "ok" ELSE "database_error",
                         built |-> Len(enTask[src].buf)]]
    /\ enTask' = [enTask EXCEPT ![src] = [pc |-> "done", buf |-> <<>>]]
    /\ UNCHANGED <<utc, restEn>>

\* Time passes.
ClockTick ==
    /\ utc < MaxClock
    /\ utc' = utc + 1
    /\ UNCHANGED <<enTask, assertions, enOut, restEn>>

InitEn ==
    /\ utc = 0
    /\ enTask = [src \in Enrichers |-> IdleEnricher]
    /\ assertions = <<>>
    /\ enOut = [src \in Enrichers |-> NoResult]

----------------------------------------------------------------------------
(* The rules engine: deduplicate_proposals                                 *)

\* Raw proposals of one application of the rules.
MaxProposals == 3

\* Source variants that produce proposals.
ProposalSources == {"MusicBrainz", "LastFm"}

\* SOURCE_NAMES: the canonical name of a Source.
source_to_str(source) ==
    CASE source = "MusicBrainz" -> "musicbrainz"
      [] source = "LastFm" -> "lastfm"
      [] OTHER -> "unknown"

\* Keys a rules document may use under [source_priority].
PriorityKeys == {"musicbrainz", "MusicBrainz", "lastfm"}

\* str::to_lowercase on the strings met.
to_lowercase(str) ==
    CASE str = "MusicBrainz" -> "musicbrainz"
      [] OTHER -> str

\* source_priority tables: any of the keys, each with a priority.
RulesDocuments == UNION {[K -> {1, 2}] : K \in SUBSET PriorityKeys}

\* MappingRules::priority_for: the exact key, else a key equal to the name
\* up to case, else 0.
priority_for(doc, name) ==
    LET same == {k \in DOMAIN doc : to_lowercase(k) = to_lowercase(name)}
    IN  IF name \in DOMAIN doc THEN doc[name]
        ELSE IF same # {} THEN doc[CHOOSE k \in same : TRUE]
        ELSE 0

\* get_priority of deduplicate_proposals: the canonical name, else its
\* lowercase, else 0.
get_priority(doc, source) ==
    IF source_to_str(source) \in DOMAIN doc THEN doc[source_to_str(source)]
    ELSE IF to_lowercase(source_to_str(source)) \in DOMAIN doc
    THEN doc[to_lowercase(source_to_str(source))]
    ELSE 0

\* Raw proposals; confidences in tenths.
RawProposals ==
    [field : {"genre"}, value : {"Classical", "Jazz"}, source : ProposalSources,
     confidence : {5, 8}, alternatives : {<<>>}]

ProposalLists == UNION {[1 .. n -> RawProposals] : n \in 0 .. MaxProposals}

GroupKeys(ps) == {<<ps[i].field, ps[i].value>> : i \in 1 .. Len(ps)}

\* The group of a (field, value) pair, in the order the proposals were made.
Group(ps, key) == SelectSeq(ps, LAMBDA q : <<q.field, q.value>> = key)

\* The comparator of the sort: priority descending, then confidence
\* descending.
SortsBefore(doc, a, b) ==
    \/ get_priority(doc, a.source) > get_priority(doc, b.source)
    \/ /\ get_priority(doc, a.source) = get_priority(doc, b.source)
       /\ a.confidence > b.confidence

RemoveAt(q, i) == SubSeq(q, 1, i - 1) \o SubSeq(q, i + 1, Len(q))

RECURSIVE SortGroup(_, _)
\* group.sort_by: a stable sort, so equal entries keep their order.
SortGroup(doc, g) ==
    IF g = <<>> THEN <<>>
    ELSE LET i == CHOOSE i \in 1 .. Len(g) :
                     /\ \A j \in 1 .. Len(g) : ~SortsBefore(doc, g[j], g[i])
                     /\ \A j \in 1 .. (i - 1) : SortsBefore(doc, g[i], g[j])
         IN  <<g[i]>> \o SortGroup(doc, RemoveAt(g, i))

AsAlternative(q) ==
    [value |-> q.value, source |-> q.source, confidence |-> q.confidence]

\* deduplicate_proposals: per group the first of the sorted entries wins and
\* takes the others as its alternatives.
deduplicate_proposals(doc, ps) ==
    {LET sorted == SortGroup(doc, Group(ps, key))
     IN  [sorted[1] EXCEPT !.alternatives =
            [i \in 1 .. (Len(sorted) - 1) |-> AsAlternative(sorted[i + 1])]] :
     key \in GroupKeys(ps)}

\* Calls of the rules with one document and one list of raw proposals.
MaxCalls == 2

\* groups.into_values(): the groups live in a HashMap with the default
\* hasher, whose iteration order is any order of its entries and differs
\* from one map to the next.
into_values(S) ==
    {q \in [1 .. Cardinality(S) -> S] : {q[i] : i \in 1 .. Len(q)} = S}

\* apply_genre_rules hands its raw proposals to deduplicate_proposals, which
\* pushes the winner of each group in the order the map yields the groups.
Deduplicate ==
    /\ ddCalls < MaxCalls
    /\ ddOut' = deduplicate_proposals(ddRules, ddIn)
    /\ ddDone' = TRUE
    /\ ddVec' \in into_values(deduplicate_proposals(ddRules, ddIn))
    /\ ddPrev' = ddVec
    /\ ddCalls' = ddCalls + 1
    /\ UNCHANGED <<ddRules, ddIn, restDd>>

InitDd ==
    /\ ddRules = [k \in {} |-> 0]
    /\ ddIn = <<>>
    /\ ddOut = {}
    /\ ddDone = FALSE
    /\ ddVec = <<>>
    /\ ddPrev = <<>>
    /\ ddCalls = 0

----------------------------------------------------------------------------
(* The enrich stage: the wikidata subtask                                  *)

\* Uuid::to_string of the id of a Work row: a version 4 UUID drawn when the
\* row was made, in text. It is not the MusicBrainz id of the Work.
to_string(work_id) ==
    IF work_id.mbid = None THEN "uuid-untitled" ELSE "uuid-" \o work_id.mbid

\* get_work_by_musicbrainz_id: SELECT ... FROM works WHERE musicbrainz_id =
\* ?1; the musicbrainz_id column of a row, or None when no row matches.
get_work_by_musicbrainz_id(rows, mbid) ==
    IF \E w \in rows : w.mbid = mbid
    THEN (CHOOSE w \in rows : w.mbid = mbid).mbid
    ELSE None

\* The read phase of enrich_from_wikidata: the Item's Expression is found
\* among list_expressions by its id, then the Work is looked up by
\* MusicBrainz id with the text of expr.work_id.
work_mbid(item) ==
    IF item.expr = None \/ ~\E e \in expressions : e.id = item.expr THEN None
    ELSE LET expr == CHOOSE e \in expressions : e.id = item.expr
         IN  get_work_by_musicbrainz_id(works, to_string(expr.work))

\* Rows the items table can hold.
ItemRows ==
    [path : Paths, meta : 1 .. MaxFileVersion, expr : {None} \cup RecordingIds,
     man : {None} \cup ReleaseMbids]

NoWikidata == [pc |-> "idle", item |-> NoItem, asked |-> None]

\* enrich_from_wikidata: the read phase, then the enricher is called with
\* the MusicBrainz id found, if one was found.
EnrichFromWikidata(item) ==
    /\ idp.pc = "idle"
    /\ wd.pc = "idle"
    /\ item \in items
    /\ \E db \in BOOLEAN :
         wd' = IF ~db THEN [pc |-> "failed", item |-> item, asked |-> None]
               ELSE IF work_mbid(item) = None
               THEN [pc |-> "skipped", item |-> item, asked |-> None]
               ELSE [pc |-> "asked", item |-> item, asked |-> work_mbid(item)]
    /\ UNCHANGED <<catVars, restWd>>

\* The enricher answers or fails (logged either way) and the subtask
\* returns.
WikidataReturns ==
    /\ wd.pc # "idle"
    /\ wd' = NoWikidata
    /\ UNCHANGED <<catVars, restWd>>

InitWd == wd = NoWikidata

----------------------------------------------------------------------------
(* The source clients: what a call returns                                 *)

\* Calls made by the clients.
MaxClientCalls == 2

\* Clients whose calls are followed.
SourceClients == {"lastfm", "discogs"}

\* What the transport yields for a request: no response at all, or a
\* response with a status and a body that is the expected JSON or not.
Responses ==
    {[sent |-> FALSE, status |-> 0, json |-> FALSE]}
      \cup [sent : {TRUE}, status : {200, 404, 429, 500}, json : BOOLEAN]

\* reqwest's Response::error_for_status: an error for a client or server
\* error status.
error_for_status(status) == status >= 400 /\ status <= 599

\* get_track_tags and search_release: send().await? turns a failed send
\* into Request, error_for_status().map_err into Http, a body that does not
\* decode into Parse.
ClientResult(client, response) ==
    IF ~response.sent THEN "request"
    ELSE IF error_for_status(response.status) THEN "http"
    ELSE IF ~response.json THEN "parse"
    ELSE "ok"

\* A client makes a call and the provider answers.
ClientRequest(client, response) ==
    /\ Len(callLog) < MaxClientCalls
    /\ callLog' = Append(callLog, [client |-> client, response |-> response,
                                   result |-> ClientResult(client, response)])
    /\ UNCHANGED restCl

InitCl == callLog = <<>>

----------------------------------------------------------------------------
(* The vocabulary loader: load_lcgft                                       *)

\* Terms of a snapshot file.
MaxTerms == 3

TermUris == {"gf" \o ToString(i) : i \in 1 .. MaxTerms}

\* SnapshotTerm: uri and broader_uri (label and scope note play no part).
SnapshotTerms == [uri : TermUris, broader_uri : {None} \cup TermUris]

\* The term a uri names in a snapshot.
TermOf(snapshot, uri) ==
    snapshot[CHOOSE i \in 1 .. Len(snapshot) : snapshot[i].uri = uri]

RECURSIVE Rootward(_, _, _)
\* Following the broader references from a term for n steps ends at a root.
Rootward(snapshot, term, n) ==
    IF term.broader_uri = None THEN TRUE
    ELSE IF n = 0 THEN FALSE
    ELSE Rootward(snapshot, TermOf(snapshot, term.broader_uri), n - 1)

\* Snapshot files: each uri once, every broader reference names a term of
\* the file, and the references form a hierarchy (no cycle), in any order of
\* entries.
Snapshots ==
    {q \in UNION {[1 .. n -> SnapshotTerms] : n \in 1 .. MaxTerms} :
       /\ \A i, j \in 1 .. Len(q) : q[i].uri = q[j].uri => i = j
       /\ \A i \in 1 .. Len(q) :
            q[i].broader_uri # None
              => \E j \in 1 .. Len(q) : q[j].uri = q[i].broader_uri
       /\ \A i \in 1 .. Len(q) : Rootward(q, q[i], Len(q))}

\* insert_lcgft_term: INSERT OR REPLACE of the row. Where the table declares
\* broader_uri a reference to a term's uri and the connection enforces it,
\* the statement fails for a term whose broader term has no row.
insert_lcgft_term(log, term, fk) ==
    IF /\ fk
       /\ term.broader_uri # None
       /\ ~\E i \in 1 .. Len(log) : log[i] = term.broader_uri
    THEN [ok |-> FALSE, log |-> log]
    ELSE [ok |-> TRUE, log |-> Append(log, term.uri)]

\* The test of the second pass: the term has a broader reference.
SecondPass(term) == term.broader_uri # None

NoLoad == [pc |-> "idle", idx |-> 0]

\* First pass of load_lcgft: the entries of the file in order, those
\* without a broader reference are inserted.
FirstPassStep ==
    /\ voc.pc = "first"
    /\ IF voc.idx > Len(vocIn)
       THEN /\ voc' = [pc |-> "second", idx |-> 1]
            /\ UNCHANGED vocLog
       ELSE IF vocIn[voc.idx].broader_uri = None
       THEN LET r == insert_lcgft_term(vocLog, vocIn[voc.idx], vocFk)
            IN  /\ vocLog' = r.log
                /\ voc' = IF r.ok THEN [voc EXCEPT !.idx = @ + 1]
                          ELSE [pc |-> "failed", idx |-> 0]
       ELSE /\ voc' = [voc EXCEPT !.idx = @ + 1]
            /\ UNCHANGED vocLog
    /\ UNCHANGED <<vocIn, vocFk, restVo>>

\* Second pass: the entries of the file in order again, those with a
\* broader reference are inserted; with the file exhausted the count is
\* returned.
SecondPassStep ==
    /\ voc.pc = "second"
    /\ IF voc.idx > Len(vocIn)
       THEN /\ voc' = [pc |-> "loaded", idx |-> 0]
            /\ UNCHANGED vocLog
       ELSE IF SecondPass(vocIn[voc.idx])
       THEN LET r == insert_lcgft_term(vocLog, vocIn[voc.idx], vocFk)
            IN  /\ vocLog' = r.log
                /\ voc' = IF r.ok THEN [voc EXCEPT !.idx = @ + 1]
                          ELSE [pc |-> "failed", idx |-> 0]
       ELSE /\ voc' = [voc EXCEPT !.idx = @ + 1]
            /\ UNCHANGED vocLog
    /\ UNCHANGED <<vocIn, vocFk, restVo>>

InitVo ==
    /\ vocIn = <<>>
    /\ vocFk = FALSE
    /\ voc = NoLoad
    /\ vocLog = <<>>

----------------------------------------------------------------------------
(* The command line: what the commands find in the catalog                 *)

\* Commands started.
MaxCommands == 2

CommandNames == {"scan", "identify", "process"}

\* The work items the commands advance.
CommandJobs == {ScanJobId, IdentifyJobId, ProcessJobId}

NoCommand == [name |-> None, step |-> None, resume |-> FALSE, unid |-> FALSE]

\* The catalog as the commands look at it: it holds Items, some of them
\* unidentified, some of them without a fingerprint.
EmptyCatalog == [items |-> FALSE, unidentified |-> FALSE, nofp |-> FALSE]

\* should_run_scan: the catalog file is missing or holds no Item.
should_run_scan(c) == ~c.items

\* should_run_fingerprint: list_items_without_fingerprints is not empty.
should_run_fingerprint(c) == c.nofp

\* should_run_identify: list_unidentified_items is not empty.
should_run_identify(c) == c.unidentified

InitCm ==
    /\ cmd = NoCommand
    /\ cmdLog = <<>>
    /\ cmdCount = 0
    /\ cat = EmptyCatalog

----------------------------------------------------------------------------
(* Harmonize: the hints for the period rules                               *)

\* Assertions of one Item.
MaxAssertions == 3

\* JSON values of assertions: a string, an object (as the MusicBrainz
\* enricher writes a composer: name and id), an integer.
JsonValues ==
    {[kind |-> "string", val |-> "Bach"], [kind |-> "object", val |-> "Bach"],
     [kind |-> "integer", val |-> 1720]}

HintFields == {"composer", "composed_year", "year", "genre"}

\* The assertions get_assertions_for_entity answers with, in its order
\* (fetched_at descending).
AssertionLists ==
    UNION {[1 .. n -> [field : HintFields, value : JsonValues]] :
             n \in 0 .. MaxAssertions}

\* serde_json::Value::as_str: the text of a string, None for anything else.
as_str(value) == IF value.kind = "string" THEN value.val ELSE None

\* serde_json::Value::as_i64 followed by `y as i32`: the number of an
\* integer, None for anything else. The cast keeps the low 32 bits; the years
\* met are all within the range of i32, where it keeps the number.
as_i32(value) == IF value.kind = "integer" THEN value.val ELSE None

\* Iterator::find: the position of the first element with one of the
\* fields, 0 if there is none.
find(list, fields) ==
    IF \E i \in 1 .. Len(list) : list[i].field \in fields
    THEN CHOOSE i \in 1 .. Len(list) :
           /\ list[i].field \in fields
           /\ \A j \in 1 .. (i - 1) : list[j].field \notin fields
    ELSE 0

\* The composer hint: the first assertion with field composer, if its value
\* is a string.
composer(list) ==
    IF find(list, {"composer"}) = 0 THEN None
    ELSE as_str(list[find(list, {"composer"})].value)

\* The year hint: the first assertion with field composed_year or year, if
\* its value is an integer.
year(list) ==
    IF find(list, {"composed_year", "year"}) = 0 THEN None
    ELSE as_i32(list[find(list, {"composed_year", "year"})].value)

NoHints == [composer |-> None, year |-> None]

\* HarmonizeStage::execute, step 3: the hints handed to apply_period_rules.
ComputeHints ==
    /\ ~hzDone
    /\ hzIn # <<>>
    /\ hzHints' = [composer |-> composer(hzIn), year |-> year(hzIn)]
    /\ hzDone' = TRUE
    /\ UNCHANGED <<hzIn, restHz>>

InitHz ==
    /\ hzIn = <<>>
    /\ hzHints = NoHints
    /\ hzDone = FALSE

InitExt ==
    /\ InitHz
    /\ InitMg /\ InitUp /\ InitCat /\ InitEn /\ InitDd /\ InitWd /\ InitCl /\ InitVo
    /\ InitCm

----------------------------------------------------------------------------
(* Workflow::advance, one process at a time                                *)

NoEnv == [db |-> TRUE, io |-> TRUE, proposals |-> "no_assertions"]

\* No client call is in progress.
InitRL ==
    /\ now = 0
    /\ rps = 1
    /\ permits = RateLimiterNew(1).permits
    /\ task = [t \in Tasks |-> IdleTask]
    /\ reqLog = <<>>
    /\ delays = 0

InitWF ==
    /\ store = {}
    /\ config \in [lastfm_api_key : BOOLEAN]
    /\ job \in WorkItems
    /\ pc = "idle"
    /\ curItem = None
    /\ curStage = None
    /\ emitted = {}
    /\ tasks = {}
    /\ executed = {}
    /\ doneAtStart = {}
    /\ staleAtStart = {}
    /\ lastExec = NoKey
    /\ lastEnv = NoEnv

Init == InitWF /\ InitRL /\ InitExt

\* No process is running and nothing is persisted.
InitWFIdle ==
    /\ InitWF
    /\ config = [lastfm_api_key |-> FALSE]
    /\ job = ProcessJobId

\* A client is built with the rate of one of the providers.
InitLimiter ==
    /\ InitWFIdle
    /\ now = 0
    /\ rps \in ClientRps
    /\ permits = RateLimiterNew(rps).permits
    /\ task = [t \in Tasks |-> IdleTask]
    /\ reqLog = <<>>
    /\ delays = 0
    /\ InitExt

\* A process opens the state store and starts advancing item i.
BeginAdvance(i) ==
    /\ pc = "idle"
    /\ i = job
    /\ store' = Reconcile(OpenStateStore(store), i)
    /\ pc' = "pick"
    /\ curItem' = i
    /\ doneAtStart' = DoneKeys(store, i)
    /\ staleAtStart' = {r.key : r \in {q \in store : q.key[1] = i /\ q.status = "running"}}
    /\ executed' = {}
    /\ lastExec' = NoKey
    /\ lastEnv' = NoEnv
    /\ UNCHANGED <<config, job, curStage, emitted, tasks, rlVars, extVars>>

\* Step 2.1: the next ready stage is marked running.
MarkRunning(s) ==
    /\ pc = "pick"
    /\ s \in PipelineOf(curItem)
    /\ Ready(store, curItem, s)
    /\ store' = Upsert(store, Key(curItem, s, None), "running", None)
    /\ curStage' = s
    /\ pc' = "exec"
    /\ lastExec' = NoKey
    /\ lastEnv' = NoEnv
    /\ UNCHANGED <<config, job, curItem, emitted, tasks, executed, doneAtStart,
                   staleAtStart, rlVars, extVars>>

\* No stage is ready: the advance returns.
NoneReady ==
    /\ pc = "pick"
    /\ \A s \in PipelineOf(curItem) : ~Ready(store, curItem, s)
    /\ pc' = "done"
    /\ lastExec' = NoKey
    /\ lastEnv' = NoEnv
    /\ UNCHANGED <<store, config, job, curItem, curStage, emitted, tasks, executed,
                   doneAtStart, staleAtStart, rlVars, extVars>>

\* Rows created for a fan-out: pending for every subtask not yet complete.
CreateSubtaskRows(st, i, s, S) ==
    {r \in st : ~(r.key[1] = i /\ r.key[2] = s /\ r.key[3] \in S
                    /\ r.status # "complete")}
        \cup {[key |-> Key(i, s, t), status |-> "pending", error |-> None] :
                t \in {u \in S : StatusOf(st, Key(i, s, u)) # "complete"}}

\* Steps 2.2-2.6: execute the running stage and record its outcome.
ExecuteStage ==
    /\ pc = "exec"
    /\ \E env \in EnvsFor(curStage, None, curItem) :
        LET k == Key(curItem, curStage, None)
            out == StageExecute(curStage, None, config, curItem, env)
        IN  /\ lastExec' = k
            /\ lastEnv' = env
            /\ executed' = executed \cup {<<curStage, None>>}
            /\ CASE out.kind = "complete" ->
                      /\ store' = Upsert(store, k, "complete", None)
                      /\ pc' = "pick"
                      /\ UNCHANGED <<emitted, tasks>>
                 [] out.kind = "needs_review" ->
                      /\ store' = Upsert(store, k, "needs_review", None)
                      /\ pc' = "done"
                      /\ UNCHANGED <<emitted, tasks>>
                 [] out.kind = "failed" ->
                      /\ store' = Upsert(store, k, "failed", out.error)
                      /\ pc' = "done"
                      /\ UNCHANGED <<emitted, tasks>>
                 [] out.kind = "fanout" ->
                      /\ store' = CreateSubtaskRows(store, curItem, curStage,
                                                    out.subtasks)
                      /\ emitted' = out.subtasks
                      /\ tasks' = {t \in out.subtasks :
                                     StatusOf(store, Key(curItem, curStage, t))
                                        # "complete"}
                      /\ pc' = "fanout"
    /\ UNCHANGED <<config, job, curItem, curStage, doneAtStart, staleAtStart, rlVars, extVars>>

\* A subtask task starts.
SubtaskStart(t) ==
    /\ pc = "fanout"
    /\ t \in tasks
    /\ StatusOf(store, Key(curItem, curStage, t)) = "pending"
    /\ store' = Upsert(store, Key(curItem, curStage, t), "running", None)
    /\ lastExec' = NoKey
    /\ lastEnv' = NoEnv
    /\ UNCHANGED <<config, job, pc, curItem, curStage, emitted, tasks, executed,
                   doneAtStart, staleAtStart, rlVars, extVars>>

\* A subtask task calls execute with its subtask name and records the outcome.
SubtaskExecute(t) ==
    /\ pc = "fanout"
    /\ t \in tasks
    /\ StatusOf(store, Key(curItem, curStage, t)) = "running"
    /\ \E env \in EnvsFor(curStage, t, curItem) :
        LET k == Key(curItem, curStage, t)
            out == StageExecute(curStage, t, config, curItem, env)
        IN  /\ lastExec' = k
            /\ lastEnv' = env
            /\ executed' = executed \cup {<<curStage, t>>}
            /\ store' = IF out.kind = "complete"
                        THEN Upsert(store, k, "complete", None)
                        ELSE Upsert(store, k, "failed", out.error)
    /\ tasks' = tasks \ {t}
    /\ UNCHANGED <<config, job, pc, curItem, curStage, emitted, doneAtStart,
                   staleAtStart, rlVars, extVars>>

\* All sibling tasks have finished: the parent is complete when every subtask
\* is, failed otherwise.
Aggregate ==
    /\ pc = "fanout"
    /\ tasks = {}
    /\ LET k == Key(curItem, curStage, None)
           allComplete == \A t \in emitted :
                            StatusOf(store, Key(curItem, curStage, t)) = "complete"
       IN  IF allComplete
           THEN /\ store' = Upsert(store, k, "complete", None)
                /\ pc' = "pick"
           ELSE /\ store' = Upsert(store, k, "failed", "subtask failed")
                /\ pc' = "done"
    /\ emitted' = {}
    /\ lastExec' = NoKey
    /\ lastEnv' = NoEnv
    /\ UNCHANGED <<config, job, curItem, curStage, tasks, executed, doneAtStart,
                   staleAtStart, rlVars, extVars>>

EndProcess ==
    /\ pc' = "idle"
    /\ curItem' = None
    /\ curStage' = None
    /\ emitted' = {}
    /\ tasks' = {}
    /\ executed' = {}
    /\ doneAtStart' = {}
    /\ staleAtStart' = {}
    /\ lastExec' = NoKey
    /\ lastEnv' = NoEnv
    /\ UNCHANGED <<store, config, job, rlVars, extVars>>

\* The advance has returned and the process exits.
Finish ==
    /\ pc = "done"
    /\ EndProcess

\* The process is killed: what it holds in memory is lost, the store stays.
Kill ==
    /\ pc \in {"pick", "exec", "fanout"}
    /\ EndProcess

----------------------------------------------------------------------------
(* The command line: run_scan, run_identify, run_process                   *)

\* A command is started from the shell.
StartCommand(name, resume) ==
    /\ cmd.name = None
    /\ pc = "idle"
    /\ cmdCount < MaxCommands
    /\ resume => name = "process"
    /\ cmd' = [name |-> name, step |-> "begin", resume |-> resume,
               unid |-> cat.unidentified]
    /\ cmdLog' = <<>>
    /\ cmdCount' = cmdCount + 1
    /\ UNCHANGED <<wfVars, cat, restCm>>

\* run_scan: the workflow of build_pipeline is advanced for "scan-job".
ScanCommandStep ==
    /\ cmd.name = "scan"
    /\ cmd.step = "begin"
    /\ job' = ScanJobId
    /\ cmd' = [cmd EXCEPT !.step = "scan_adv"]
    /\ UNCHANGED <<store, config, pc, curItem, curStage, emitted, tasks, executed,
                   doneAtStart, staleAtStart, lastExec, lastEnv, cmdLog, cmdCount,
                   cat, restCm>>

\* run_identify: with no unidentified Item it returns; otherwise the
\* workflow of build_pipeline is advanced for "identify-job".
IdentifyCommandStep ==
    /\ cmd.name = "identify"
    /\ cmd.step = "begin"
    /\ IF ~cat.unidentified
       THEN /\ cmd' = [cmd EXCEPT !.step = "end"]
            /\ UNCHANGED job
       ELSE /\ cmd' = [cmd EXCEPT !.step = "identify_adv"]
            /\ job' = IdentifyJobId
    /\ UNCHANGED <<store, config, pc, curItem, curStage, emitted, tasks, executed,
                   doneAtStart, staleAtStart, lastExec, lastEnv, cmdLog, cmdCount,
                   cat, restCm>>

\* run_process, step 1: run_scan, unless resuming with Items in the catalog.
ProcessScanStep ==
    /\ cmd.name = "process"
    /\ cmd.step = "begin"
    /\ IF ~cmd.resume \/ should_run_scan(cat)
       THEN /\ cmd' = [cmd EXCEPT !.step = "scan_adv"]
            /\ job' = ScanJobId
       ELSE /\ cmd' = [cmd EXCEPT !.step = "fingerprint"]
            /\ UNCHANGED job
    /\ UNCHANGED <<store, config, pc, curItem, curStage, emitted, tasks, executed,
                   doneAtStart, staleAtStart, lastExec, lastEnv, cmdLog, cmdCount,
                   cat, restCm>>

\* run_process, step 2: run_fingerprint, unless resuming with every Item
\* fingerprinted; the files it cannot decode stay without a fingerprint.
ProcessFingerprintStep ==
    /\ cmd.name = "process"
    /\ cmd.step = "fingerprint"
    /\ IF ~cmd.resume \/ should_run_fingerprint(cat)
       THEN /\ \E left \in BOOLEAN : cat' = [cat EXCEPT !.nofp = @ /\ left]
            /\ cmdLog' = Append(cmdLog, [kind |-> "fingerprint", item |-> None,
                                         stages |-> {}])
       ELSE UNCHANGED <<cat, cmdLog>>
    /\ cmd' = [cmd EXCEPT !.step = "identify"]
    /\ UNCHANGED <<wfVars, cmdCount, restCm>>

\* run_process, step 3: run_identify, unless resuming with every Item
\* identified.
ProcessIdentifyStep ==
    /\ cmd.name = "process"
    /\ cmd.step = "identify"
    /\ IF (~cmd.resume \/ should_run_identify(cat)) /\ cat.unidentified
       THEN /\ cmd' = [cmd EXCEPT !.step = "identify_adv"]
            /\ job' = IdentifyJobId
       ELSE /\ cmd' = [cmd EXCEPT !.step = "pipeline"]
            /\ UNCHANGED job
    /\ UNCHANGED <<store, config, pc, curItem, curStage, emitted, tasks, executed,
                   doneAtStart, staleAtStart, lastExec, lastEnv, cmdLog, cmdCount,
                   cat, restCm>>

\* run_process, steps 4 and 5: the workflow of build_full_pipeline is
\* advanced for "process-job".
ProcessPipelineStep ==
    /\ cmd.name = "process"
    /\ cmd.step = "pipeline"
    /\ cmd' = [cmd EXCEPT !.step = "pipeline_adv"]
    /\ job' = ProcessJobId
    /\ UNCHANGED <<store, config, pc, curItem, curStage, emitted, tasks, executed,
                   doneAtStart, staleAtStart, lastExec, lastEnv, cmdLog, cmdCount,
                   cat, restCm>>

\* The step of a command that follows an advance.
StepAfter(name, step) ==
    IF name = "process" /\ step = "scan_adv" THEN "fingerprint"
    ELSE IF name = "process" /\ step = "identify_adv" THEN "pipeline"
    ELSE "end"

\* The stage was executed by the advance and is recorded complete.
RanComplete(s) ==
    /\ <<s, None>> \in executed
    /\ StatusOf(store, Key(curItem, s, None)) = "complete"

\* workflow.advance returns to the command. A scan that ran may have found
\* files (new Items: unidentified, not fingerprinted); an identify that ran
\* may have left Items unidentified.
AdvanceReturns ==
    /\ pc = "done"
    /\ cmd.step \in {"scan_adv", "identify_adv", "pipeline_adv"}
    /\ cmdLog' = Append(cmdLog, [kind |-> "advance", item |-> curItem,
                                 stages |-> {e[1] : e \in executed}])
    /\ \E found \in BOOLEAN, left \in BOOLEAN :
         LET scanned == IF RanComplete("scan") /\ found
                        THEN [items |-> TRUE, unidentified |-> TRUE,
                              nofp |-> TRUE]
                        ELSE cat
         IN  cat' = IF RanComplete("identify")
                    THEN [scanned EXCEPT !.unidentified = @ /\ left]
                    ELSE scanned
    /\ cmd' = [cmd EXCEPT !.step = StepAfter(cmd.name, cmd.step)]
    /\ job' = None
    /\ pc' = "idle"
    /\ curItem' = None
    /\ curStage' = None
    /\ emitted' = {}
    /\ tasks' = {}
    /\ executed' = {}
    /\ doneAtStart' = {}
    /\ staleAtStart' = {}
    /\ lastExec' = NoKey
    /\ lastEnv' = NoEnv
    /\ UNCHANGED <<store, config, cmdCount, restCm>>

\* The command returns and its process exits.
CommandExits ==
    /\ cmd.step = "end"
    /\ cmd' = NoCommand
    /\ cmdLog' = <<>>
    /\ UNCHANGED <<wfVars, cmdCount, cat, restCm>>

Next ==
    \/ \E i \in WorkItems : BeginAdvance(i)
    \/ \E s \in StageNames : MarkRunning(s)
    \/ NoneReady
    \/ ExecuteStage
    \/ \E t \in SourceNames : SubtaskStart(t)
    \/ \E t \in SourceNames : SubtaskExecute(t)
    \/ Aggregate
    \/ Finish
    \/ Kill

Spec == Init /\ [][Next]_vars

NextLimiter ==
    \/ \E t \in Tasks : ClientCall(t)
    \/ \E t \in Tasks : TakePermit(t)
    \/ \E t \in Tasks : AcquireReturns(t)
    \/ \E t \in Tasks : ResponseArrives(t)
    \/ TimerFires
    \/ SchedulingDelay

SpecLimiter == InitLimiter /\ [][NextLimiter]_vars

----------------------------------------------------------------------------
(* Specifications of the catalog store                                     *)

InitMigrate ==
    /\ InitWFIdle
    /\ InitRL
    /\ InitExt

NextMigrate ==
    \/ \E o \in Openers : OpenBegin(o)
    \/ \E o \in Openers : ReadApplied(o)
    \/ \E o \in Openers : BatchStatement(o)
    \/ \E o \in Openers : RecordVersion(o)
    \/ \E o \in Openers : CloseConn(o)

SpecMigrate == InitMigrate /\ [][NextMigrate]_vars

NextUpsert ==
    \/ \E e \in UpsertEntities, new \in AssocLists : UpsertReplaceRow(e, new)
    \/ UpsertDeleteAssociations
    \/ UpsertInsertAssociation
    \/ UpsertReturn

SpecUpsert == InitMigrate /\ [][NextUpsert]_vars

NextCatalog ==
    \/ \E q \in Paths : FileChange(q)
    \/ ScanRun
    \/ IdentifyBegin
    \/ NextItem
    \/ LookupResponds
    \/ RecordingResponds
    \/ OpenAndCreateArtists
    \/ CreateWork
    \/ WorkDetailResponds
    \/ CreateExpression
    \/ CreateManifestation
    \/ LinkItem
    \/ IdentifyReturn
    \/ \E r \in ItemRows : EnrichFromWikidata(r)
    \/ WikidataReturns

SpecCatalog == InitMigrate /\ [][NextCatalog]_vars

NextEnrichers ==
    \/ \E src \in Enrichers : EnricherStart(src)
    \/ \E src \in Enrichers : EnricherResponse(src)
    \/ \E src \in Enrichers : EnricherPersist(src)
    \/ ClockTick

SpecEnrichers == InitMigrate /\ [][NextEnrichers]_vars

NextClients ==
    \E client \in SourceClients, response \in Responses :
      ClientRequest(client, response)

SpecClients == InitMigrate /\ [][NextClients]_vars

\* No command has run: the state store and the catalog are empty.
InitCommands ==
    /\ store = {}
    /\ config = [lastfm_api_key |-> FALSE]
    /\ job = None
    /\ pc = "idle"
    /\ curItem = None
    /\ curStage = None
    /\ emitted = {}
    /\ tasks = {}
    /\ executed = {}
    /\ doneAtStart = {}
    /\ staleAtStart = {}
    /\ lastExec = NoKey
    /\ lastEnv = NoEnv
    /\ InitRL
    /\ InitExt

NextCommands ==
    \/ \E name \in CommandNames, resume \in BOOLEAN : StartCommand(name, resume)
    \/ ScanCommandStep
    \/ IdentifyCommandStep
    \/ ProcessScanStep
    \/ ProcessFingerprintStep
    \/ ProcessIdentifyStep
    \/ ProcessPipelineStep
    \/ AdvanceReturns
    \/ CommandExits
    \/ \E i \in CommandJobs : BeginAdvance(i)
    \/ \E s \in StageNames : MarkRunning(s)
    \/ NoneReady
    \/ ExecuteStage
    \/ \E t \in SourceNames : SubtaskStart(t)
    \/ \E t \in SourceNames : SubtaskExecute(t)
    \/ Aggregate

SpecCommands == InitCommands /\ [][NextCommands]_vars

\* Harmonize has loaded the assertions of an Item.
InitHints ==
    /\ InitWFIdle
    /\ InitRL
    /\ InitMg /\ InitUp /\ InitCat /\ InitEn /\ InitDd /\ InitWd /\ InitCl
    /\ InitVo /\ InitCm
    /\ hzIn \in AssertionLists
    /\ hzHints = NoHints
    /\ hzDone = FALSE

NextHints == ComputeHints

SpecHints == InitHints /\ [][NextHints]_vars

\* load_lcgft is called on an empty terms table with a snapshot file.
InitVocab ==
    /\ InitWFIdle
    /\ InitRL
    /\ InitMg /\ InitUp /\ InitCat /\ InitEn /\ InitDd /\ InitWd /\ InitCl
    /\ InitCm /\ InitHz
    /\ vocIn \in Snapshots
    /\ vocFk \in BOOLEAN
    /\ voc = [pc |-> "first", idx |-> 1]
    /\ vocLog = <<>>

NextVocab ==
    \/ FirstPassStep
    \/ SecondPassStep

SpecVocab == InitVocab /\ [][NextVocab]_vars

\* A rules document is loaded and the rules have made their raw proposals.
InitDedup ==
    /\ InitWFIdle
    /\ InitRL
    /\ InitMg /\ InitUp /\ InitCat /\ InitEn /\ InitWd /\ InitCl /\ InitVo
    /\ InitCm /\ InitHz
    /\ ddRules \in RulesDocuments
    /\ ddIn \in ProposalLists
    /\ ddOut = {}
    /\ ddDone = FALSE
    /\ ddVec = <<>>
    /\ ddPrev = <<>>
    /\ ddCalls = 0

NextDedup == Deduplicate

SpecDedup == InitDedup /\ [][NextDedup]_vars

----------------------------------------------------------------------------
(* Workflow claims                                                         *)

AllKeys ==
    {Key(i, s, t) : i \in WorkItems, s \in StageNames, t \in SourceNames \cup {None}}

RunningRows(i) == {r \in store : r.key[1] = i /\ r.status = "running"}

\* C1: once the persisted state of a stage (or subtask) of an item is complete
\* or needs-review, it stays so, and no later step of any advance invokes that
\* stage's execute for the item again.
C1_CompletedNeverReinvoked ==
    [][\A k \in AllKeys :
          StatusOf(store, k) \in DoneStatuses
            => /\ StatusOf(store', k) = StatusOf(store, k)
               /\ lastExec' # k]_vars

\* An advance that began with stages already complete has returned without
\* executing anything.
C1_Witness ==
    /\ pc = "done"
    /\ executed = {}
    /\ Key(curItem, "scan", None) \in doneAtStart

\* C2: the enrich stage of an item is recorded complete only when the record
\* of every enabled source's subtask is complete (never while one is missing,
\* pending, running or failed).
C2_FanOutCompleteOnlyAfterSubtasks ==
    \A i \in WorkItems :
        StatusOf(store, Key(i, "enrich", None)) = "complete"
          => \A t \in EnabledSources(config) :
                StatusOf(store, Key(i, "enrich", t)) = "complete"

\* The parent was marked complete in an advance that ran subtasks.
C2_Witness ==
    /\ pc = "pick"
    /\ StatusOf(store, Key(curItem, "enrich", None)) = "complete"
    /\ \E t \in SourceNames : <<"enrich", t>> \in executed

\* C3: in an advance that resumes an item, a subtask that was already recorded
\* complete is not executed again, and harmonize is executed only when every
\* enabled source's subtask is complete, each either from before or executed
\* in this advance.
C3_ResumeSkipsCompletedSubtasks ==
    pc # "idle" =>
        /\ \A t \in SourceNames :
              Key(curItem, "enrich", t) \in doneAtStart
                => <<"enrich", t>> \notin executed
        /\ <<"harmonize", None>> \in executed
              => \A t \in EnabledSources(config) :
                    /\ StatusOf(store, Key(curItem, "enrich", t)) = "complete"
                    /\ \/ Key(curItem, "enrich", t) \in doneAtStart
                       \/ <<"enrich", t>> \in executed

\* After a kill, the advance found one subtask complete and another not, ran
\* the remaining ones and then harmonize.
C3_Witness ==
    /\ \E t \in SourceNames : Key(curItem, "enrich", t) \in staleAtStart
    /\ \E t \in SourceNames : Key(curItem, "enrich", t) \in doneAtStart
    /\ \E t \in EnabledSources(config) : <<"enrich", t>> \in executed
    /\ Key(curItem, "enrich", None) \notin doneAtStart
    /\ <<"harmonize", None>> \in executed

\* C4: when execute has just run for a stage, the stages it depends on are
\* complete: scan for identify, identify for enrich (and its subtasks), enrich
\* with every enabled subtask for harmonize.
C4_ExecutedOnlyAfterDependencies ==
    lastExec # NoKey =>
        LET i == lastExec[1]
            s == lastExec[2]
        IN  /\ s = "identify" => StatusOf(store, Key(i, "scan", None)) = "complete"
            /\ s = "enrich" => StatusOf(store, Key(i, "identify", None)) = "complete"
            /\ s = "harmonize" =>
                  /\ StatusOf(store, Key(i, "enrich", None)) = "complete"
                  /\ \A t \in EnabledSources(config) :
                        StatusOf(store, Key(i, "enrich", t)) = "complete"

C4_Witness ==
    /\ lastExec # NoKey
    /\ lastExec[2] = "harmonize"

\* The stages after a stage in the pipeline.
Downstream(s) ==
    CASE s = "scan" -> {"identify", "enrich", "harmonize"}
      [] s = "identify" -> {"enrich", "harmonize"}
      [] s = "enrich" -> {"harmonize"}
      [] s = "harmonize" -> {}

\* The environment in which a stage's execution fails.
ExecutionFails(s, env) ==
    CASE s = "scan" -> ~env.db \/ ~env.io
      [] s = "identify" -> ~env.db
      [] s = "enrich" -> FALSE
      [] s = "harmonize" -> ~env.db

\* C5: when the execution of a stage has just failed, its record is failed
\* with an error, the advance has stopped, and no stage after a failed stage
\* has been executed in this advance.
C5_FailureRecordedAndHalts ==
    /\ (lastExec # NoKey /\ lastExec[3] = None
            /\ ExecutionFails(lastExec[2], lastEnv))
          => /\ StatusOf(store, lastExec) = "failed"
             /\ ErrorOf(store, lastExec) # None
             /\ pc = "done"
    /\ pc # "idle" =>
          \A s \in StageNames :
              StatusOf(store, Key(curItem, s, None)) = "failed"
                => \A d \in Downstream(s) : <<d, None>> \notin executed

C5_Witness ==
    /\ lastExec # NoKey
    /\ lastExec[2] = "scan"
    /\ ~lastEnv.db
    /\ StatusOf(store, lastExec) = "failed"

\* The dependencies of a stage, as the claims state them.
DeclaredDeps(s) ==
    CASE s = "scan" -> {}
      [] s = "identify" -> {"scan"}
      [] s = "enrich" -> {"identify"}
      [] s = "harmonize" -> {"enrich"}

\* C6: while an advance picks its next stage or has returned, no record of the
\* item is running (a marker left by a killed process has been demoted); and
\* when it has returned, every stage or subtask whose record was running at
\* its start has been executed in it, as has every stage that was not complete
\* or needs-review at its start and whose dependencies are complete, and
\* every subtask of a re-entered enrich stage that was not complete.
C6_RetriedOnNextAdvance ==
    /\ pc \in {"pick", "done"} => RunningRows(curItem) = {}
    /\ pc = "done" =>
          /\ \A k \in staleAtStart : <<k[2], k[3]>> \in executed
          /\ \A s \in StageNames :
                (/\ Key(curItem, s, None) \notin doneAtStart
                 /\ \A d \in DeclaredDeps(s) :
                       StatusOf(store, Key(curItem, d, None)) = "complete")
                  => <<s, None>> \in executed
          /\ <<"enrich", None>> \in executed
                => \A t \in EnabledSources(config) :
                      Key(curItem, "enrich", t) \notin doneAtStart
                        => <<"enrich", t>> \in executed

\* An advance after a kill that left a subtask running has returned, and
\* a stage that had failed before is among those it executed.
C6_Witness ==
    /\ pc = "done"
    /\ \E k \in staleAtStart : k[3] # None
    /\ StatusOf(store, Key(curItem, "enrich", None)) = "complete"

\* C7: the store holds at most one record per (item, stage, subtask).
C7_OneRecordPerKey ==
    \A r1 \in store : \A r2 \in store : r1.key = r2.key => r1 = r2

\* A resumed advance has re-entered enrich, whose subtask records existed.
C7_Witness ==
    /\ pc = "fanout"
    /\ \E t \in SourceNames : Key(curItem, "enrich", t) \in doneAtStart
    /\ \E t \in SourceNames : StatusOf(store, Key(curItem, "enrich", t)) = "running"

\* C8 (as claimed): every execute of an enabled source's subtask is recorded
\* complete, whatever the catalog and the provider did.
C8_SubtaskAlwaysComplete ==
    (/\ lastExec # NoKey
     /\ lastExec[2] = "enrich"
     /\ lastExec[3] \in EnabledSources(config))
      => StatusOf(store, lastExec) = "complete"

----------------------------------------------------------------------------
(* Rate limiter claims                                                     *)

\* C9 (as claimed): any N consecutive requests of the client span at least
\* (N-1) * 1000 / R milliseconds (rounded down to whole milliseconds).
C9_RateLowerBound ==
    \A i \in 1 .. Len(reqLog) : \A j \in 1 .. Len(reqLog) :
        i < j => reqLog[j] - reqLog[i] >= ((j - i) * 1000) \div rps

\* C10 (as claimed): at most one request of the client is in flight.
C10_AtMostOneInFlight ==
    Cardinality(TasksAt("inflight")) <= 1

\* C10 (amended): at most one task at a time holds the limiter's permit, and
\* it holds it only while it sleeps the interval inside acquire(): the single
\* permit is free exactly when no task sleeps, whatever is in flight.
C10_PermitHeldOnlyDuringDelay ==
    /\ Cardinality(TasksAt("sleeping")) <= 1
    /\ permits = 1 - Cardinality(TasksAt("sleeping"))

\* One task's request is in flight while another task holds the permit.
C10_Witness ==
    /\ TasksAt("inflight") # {}
    /\ TasksAt("sleeping") # {}

----------------------------------------------------------------------------
(* Catalog store claims                                                    *)

\* C14: a migration's statements and its version record take effect together
\* or not at all: whenever no connection is in the middle of applying the
\* migration (in particular after an open that failed part-way), either none
\* of the batch's statements is in effect and the version is not recorded, or
\* all of them are and the version is recorded.
C14_MigrationAllOrNothing ==
    (\A o \in Openers : mgProc[o].pc \notin {"batch", "record"})
        => \/ mgSchema = {} /\ mgVersions = {}
           \/ mgSchema = BatchStatements /\ mgVersions = MIGRATIONS

\* C13: an upsert replaces the entity row and its full association set in a
\* single transaction: at every point, during the call (what a concurrent
\* reader sees) and after it failed between statements, the entity has either
\* the association set it had before the upsert or the complete new set.
C13_UpsertAtomic ==
    upProc.pc # "idle"
        => upAssoc[upProc.entity] \in {upProc.old, SeqRange(upProc.new)}

\* Suspension points of identify that await an answer of AcoustID or
\* MusicBrainz.
HttpAwaits == {"lookup", "recording", "work_detail"}

\* C11: no task holds an open catalog handle while it awaits an external HTTP
\* call: whenever identify is suspended on a provider request, its handle is
\* dropped.
C11_NoHandleAcrossHttpAwait ==
    idp.pc \in HttpAwaits => ~idp.handle

\* C15: at every point every identified Item references an existing Expression
\* whose Work exists, and every performer of an Expression is an existing
\* Artist, also after entity creation failed part-way for an item.
C15_ReferentialIntegrity ==
    /\ \A r \in items :
         r.expr # None => \E e \in expressions : e.id = r.expr /\ e.work \in works
    /\ \A e \in expressions : e.performers \subseteq artists

\* An identify run in which one item's entity creation failed after its
\* Expression was inserted with only part of its performers, and another item
\* of the batch was linked.
C15_Witness ==
    /\ idp.pc = "done"
    /\ idp.errs # {}
    /\ \E r \in items : r.path \in idp.batch \ idp.errs /\ r.expr # None
    /\ \E e \in expressions : e.performers # artists

\* C16: identify never modifies an identified Item: in every step a row with
\* an expression id stays as it is.
C16_IdentifiedItemsUntouched ==
    [][\A r \in items : r.expr # None => r \in items']_vars

\* An identify run has gone through its batch while the catalog held an Item
\* identified before the run started.
C16_Witness ==
    /\ idp.pc = "done"
    /\ idp.visited # {}
    /\ \E r \in items : r.expr # None /\ r.path \notin idp.batch

\* C17: a failure while identifying one Item does not keep the remaining
\* Items of the batch from being processed, and the stage returns complete:
\* when the stage returns after listing its batch, every listed Item has been
\* processed and the outcome is complete.
C17_BatchSurvivesItemFailure ==
    (idp.pc = "done" /\ idp.listed)
        => idp.outcome = "complete" /\ idp.visited = idp.batch

\* The first Item of the batch failed and the second was identified.
C17_Witness ==
    /\ idp.pc = "done"
    /\ idp.errs = {PathOrder[1]}
    /\ \E r \in items : r.path = PathOrder[2] /\ r.path \in idp.batch
                        /\ r.expr # None

\* C18: scanning a directory holding a file whose path already has an Item
\* row succeeds, and afterwards there is exactly one row for every file's
\* path, with the file's current size and modification time.
C18_RescanUpserts ==
    (scanLog.ran /\ scanLog.existing /\ ~scanLog.faulty)
        => /\ scanLog.outcome = "complete"
           /\ \A q \in Paths :
                \E r \in items : ItemsAt(items, q) = {r} /\ r.meta = files[q]

----------------------------------------------------------------------------
(* Enricher claims                                                         *)

\* C12: within one process the rows of the assertions table are in
\* non-decreasing order of their fetch timestamps, also when enrich subtasks
\* of the same item run concurrently.
C12_AssertionsMonotonic ==
    \A i, j \in 1 .. Len(assertions) :
        i < j => assertions[i].fetched_at <= assertions[j].fetched_at

----------------------------------------------------------------------------
(* Harmonize claims                                                        *)

\* C19: every execution of harmonize that returns an outcome has stored the
\* proposals under the key proposed_tags of the stage's metadata map, also
\* when the item has no assertions.
C19_ProposedTagsAlwaysStored ==
    (lastExec[2] = "harmonize" /\ HarmonizeExecute(lastEnv).kind # "failed")
        => "proposed_tags" \in HarmonizeMetadata(lastEnv)

\* Occurrences of x in a sequence.
Count(q, x) == Cardinality({i \in 1 .. Len(q) : q[i] = x})

\* The priority the rules document declares for a source (0 when it declares
\* none).
DeclaredPriority(source) == priority_for(ddRules, source_to_str(source))

\* C20: in every group of proposals sharing (field, value) the winner's source
\* has the highest priority the rules document declares among the group, ties
\* on priority go to the highest confidence, and the winner's alternatives are
\* exactly the other members with their value, source and confidence.
C20_WinnerHasHighestPriority ==
    ddDone =>
      \A key \in GroupKeys(ddIn) :
        \E w \in ddOut :
          LET g == Group(ddIn, key)
              members == [i \in 1 .. Len(g) |-> AsAlternative(g[i])]
          IN  /\ <<w.field, w.value>> = key
              /\ \A i \in 1 .. Len(g) :
                   /\ DeclaredPriority(g[i].source) <= DeclaredPriority(w.source)
                   /\ DeclaredPriority(g[i].source) = DeclaredPriority(w.source)
                        => g[i].confidence <= w.confidence
              /\ \A i \in 1 .. Len(g) :
                   Count(w.alternatives, members[i])
                     = Count(members, members[i])
                         - (IF members[i] = AsAlternative(w) THEN 1 ELSE 0)

\* C21: with the rules document and the raw proposals fixed, a repeated call
\* of the rules returns the list the call before it returned: the same
\* proposals in the same order, each with the same alternatives in the same
\* order.
C21_RepeatedCallsIdentical ==
    ddCalls >= 2 => ddVec = ddPrev

\* C22: for an identified Item whose Work has a MusicBrainz id, the wikidata
\* subtask that could open the catalog resolves the Work through the Item's
\* Expression and calls the enricher with that MusicBrainz id.
C22_WikidataAskedWithWorkMbid ==
    (wd.pc \in {"asked", "skipped"} /\ wd.item.expr # None) =>
      \A e \in expressions :
        (e.id = wd.item.expr /\ e.work \in works /\ e.work.mbid # None)
          => wd.asked = e.work.mbid

\* C23: a response with status 429 is returned by the client as the
\* rate-limited kind and one with status 404 as the not-found kind; the http
\* kind is returned for other failures only.
C23_StatusMapsToErrorKind ==
    \A i \in 1 .. Len(callLog) :
      LET call == callLog[i]
      IN  /\ (call.response.sent /\ call.response.status = 429)
                => call.result = "rate_limited"
          /\ (call.response.sent /\ call.response.status = 404)
                => call.result = "not_found"
          /\ call.result = "http"
                => (call.response.sent /\ call.response.status \notin {404, 429})

\* Position of a uri in the insertion order (0 when it was not inserted).
InsertedAt(uri) ==
    IF \E i \in 1 .. Len(vocLog) : vocLog[i] = uri
    THEN CHOOSE i \in 1 .. Len(vocLog) : vocLog[i] = uri
    ELSE 0

\* C24: once a snapshot has gone through load_lcgft, every term with a
\* broader reference has been inserted, and after the term it refers to,
\* whatever the depth of the hierarchy and the order of the file's entries.
C24_ParentInsertedBeforeChild ==
    voc.pc \in {"loaded", "failed"} =>
      \A i \in 1 .. Len(vocIn) :
        vocIn[i].broader_uri # None =>
          /\ InsertedAt(vocIn[i].broader_uri) > 0
          /\ InsertedAt(vocIn[i].broader_uri) < InsertedAt(vocIn[i].uri)

\* Advances of the running command that executed a stage.
AdvancesWith(s) ==
    {n \in 1 .. Len(cmdLog) :
       cmdLog[n].kind = "advance" /\ s \in cmdLog[n].stages}

\* C25: one run of the process command executes scan and identify at most
\* once each, and the advance of "process-job" that performs enrich and
\* harmonize executes neither of them again.
C25_ProcessRunsEachStageOnce ==
    cmd.name = "process" =>
      /\ \A s \in StageNames : Cardinality(AdvancesWith(s)) <= 1
      /\ \A n \in 1 .. Len(cmdLog) :
           (cmdLog[n].kind = "advance" /\ cmdLog[n].item = ProcessJobId)
             => cmdLog[n].stages \cap {"scan", "identify"} = {}

\* A stage of the work item is recorded failed.
FailedFor(i) ==
    \E r \in store : r.key[1] = i /\ r.status = "failed"

\* C26: every invocation of the scan command executes the scan stage (the
\* directory is walked again), and every invocation of the identify command
\* that finds unidentified Items and meets no failure executes the identify
\* stage, whatever earlier invocations recorded in the state store.
C26_EveryInvocationRuns ==
    /\ (cmd.name = "scan" /\ cmd.step = "end") => AdvancesWith("scan") # {}
    /\ (cmd.name = "identify" /\ cmd.step = "end" /\ cmd.unid
          /\ ~FailedFor(IdentifyJobId))
         => AdvancesWith("identify") # {}

\* C27: the work item whose enrich or harmonize stage is executed has the id
\* of an Item of the catalog.
C27_EnrichedWorkItemIsCatalogItem ==
    lastExec[2] \in {"enrich", "harmonize"} => lastExec[1] \in CatalogItems

\* C28: when one of the Item's assertions has field composer and a string
\* value, a composer hint is passed to the period rules, whatever the other
\* composer assertions and their order.
C28_ComposerHintPassed ==
    (hzDone /\ \E i \in 1 .. Len(hzIn) :
                 hzIn[i].field = "composer" /\ hzIn[i].value.kind = "string")
      => hzHints.composer # None

\* C29: in the musicbrainz subtask the assertions of the provider calls that
\* succeeded are in the assertions table even when a later fetch of the same
\* subtask failed.
C29_SucceededCallsPersisted ==
    (enOut["musicbrainz"].result = "fetch_error"
       /\ enOut["musicbrainz"].built > 0)
      => \E i \in 1 .. Len(assertions) : assertions[i].source = "musicbrainz"

\* C30: when two Items are identified as the same recording, both are linked
\* to its one Expression and the second Item brings no further Work: after a
\* batch without errors every Work is referenced by an Expression.
C30_SecondItemAddsNoWork ==
    (/\ idp.pc = "done"
     /\ idp.errs = {}
     /\ \E r1, r2 \in items :
          r1.path # r2.path /\ r1.expr # None /\ r1.expr = r2.expr)
      => \A w \in works : \E e \in expressions : e.work = w

====
